---- MODULE Spec2Model ----
\* The instrumentation actor of src-tauri/src/frida_service.rs: FridaWorker (the
\* request/reply bridge), FridaContext (registry, process list cache, health
\* poller) and the toolkit handles it owns.
EXTENDS Integers, Sequences, FiniteSets, TLC

\* ------------------------------------------------------------------ bounds
NumCallers == 2      \* concurrent callers of FridaWorker::request
MaxJobs == 3         \* jobs accepted into the queue over one behaviour
MaxId == 2           \* largest session/script id a caller passes as an argument
MaxMessages == 2     \* callbacks the toolkit delivers to script handlers

\* ------------------------------------------------------- program constants
\* u64::MAX, where saturating_add stops. TLC's integers are 32 bits wide, so the
\* top of the range is the largest value they hold; only the distance of a
\* counter to the top matters to saturating_add.
U64_MAX == 2147483647
TTL_SECS == 2        \* Duration::from_secs(2)

\* Process ids: the one running at the start, and the one a spawn creates.
RunningPids == {1234}
SpawnPids == {4321}

\* Strings are sequences of bytes.
NUL == 0
STR_local == <<108, 111, 99, 97, 108>>
STR_socket == <<115, 111, 99, 107, 101, 116>>
STR_usb == <<117, 115, 98>>
STR_remote == <<114, 101, 109, 111, 116, 101>>
STR_a0b == <<97, 0, 98>>
STR_ping == <<112, 105, 110, 103>>
STR_ls == <<108, 115>>

\* Devices the toolkit's device manager knows: get_device_by_id fails for others.
TkDeviceIds == {STR_local, STR_socket, STR_remote}

\* Error messages (Result<_, String>).
E_UnknownSession == "Unknown session_id"
E_UnknownScript == "Unknown script_id"
E_SessionDetached == "Session is detached"
E_SocketUnsupported == "Device socket is not supported"
E_AgentMissing == "Default agent bundle is missing"
E_AgentEmpty == "Embedded agent script is empty"
E_AgentNotUtf8 == "Embedded agent script is not valid UTF-8"
E_Frida == "frida error"
E_NulDeviceId == "device_id contains a NUL"
E_NulProgram == "program contains a NUL"
E_NulArgv == "argv[i] contains a NUL"
E_NulMessage == "message contains a NUL"
E_NulDefaultScript == "default_script contains a NUL"
E_WorkerClosed == "Frida worker thread closed"
E_WorkerNoResponse == "Frida worker did not respond"

InputValidationErrors == {E_NulDeviceId, E_NulProgram, E_NulArgv, E_NulMessage, E_NulDefaultScript}
UnknownHandleErrors == {E_UnknownSession, E_UnknownScript}
WorkerUnavailableErrors == {E_WorkerClosed, E_WorkerNoResponse}

Ok(v) == [ok |-> TRUE, val |-> v, err |-> ""]
Err(e) == [ok |-> FALSE, val |-> <<>>, err |-> e]
NoResult == [ok |-> FALSE, val |-> <<>>, err |-> "none"]

\* What a request finds instead of a reply: self.tx.send(job) failed, or the
\* reply channel's sender was dropped with nothing sent.
SendFailed == [ok |-> FALSE, val |-> <<>>, err |-> "SendError"]
Dropped == [ok |-> FALSE, val |-> <<>>, err |-> "RecvError"]

\* (mutant) a dropped reply channel is reported as an empty success
RequestResult_ok(outcome) == IF outcome \in {SendFailed, Dropped} THEN Ok(<<>>) ELSE outcome

\* FridaWorker::request: what the caller is returned
RequestResult(outcome) ==
    IF outcome = SendFailed THEN Err(E_WorkerClosed)
    ELSE IF outcome = Dropped THEN Err(E_WorkerNoResponse)
    ELSE outcome

\* ------------------------------------------------------------ pure helpers
Contains(s, b) == \E i \in 1..Len(s) : s[i] = b

\* validate_no_nul: is_err() of the result.
validate_no_nul(value) == Contains(value, NUL)

\* u64::saturating_add(1)
saturating_add(x) == IF x >= U64_MAX THEN U64_MAX ELSE x + 1

\* serde_json::to_string of Value::String(s): quotes, and escapes for the quote,
\* the backslash and control characters (a NUL byte becomes the six bytes \u0000).
HexDigit(n) == IF n < 10 THEN 48 + n ELSE 87 + n
EscapeByte(b) ==
    IF b = 34 THEN <<92, 34>>
    ELSE IF b = 92 THEN <<92, 92>>
    ELSE IF b = 10 THEN <<92, 110>>
    ELSE IF b < 32 THEN <<92, 117, 48, 48, HexDigit(b \div 16), HexDigit(b % 16)>>
    ELSE <<b>>
RECURSIVE EscapeStr(_)
EscapeStr(s) == IF s = <<>> THEN <<>> ELSE EscapeByte(Head(s)) \o EscapeStr(Tail(s))
to_string(message) == <<34>> \o EscapeStr(message) \o <<34>>

\* Vec::retain(|id| *id != x)
RECURSIVE Retain(_, _)
Retain(s, x) ==
    IF s = <<>> THEN <<>>
    ELSE IF Head(s) = x THEN Retain(Tail(s), x)
    ELSE <<Head(s)>> \o Retain(Tail(s), x)

\* HashMap::remove / insert
MapRemove(m, k) == [x \in (DOMAIN m) \ {k} |-> m[x]]
MapInsert(m, k, v) == [x \in (DOMAIN m) \cup {k} |-> IF x = k THEN v ELSE m[x]]
EmptyMap == [x \in {} |-> 0]

Range(s) == {s[i] : i \in 1..Len(s)}
Count(s, x) == Cardinality({i \in 1..Len(s) : s[i] = x})

\* ---------------------------------------------------------------- state
VARIABLES
    \* FridaContext
    sessions,            \* session_id -> SessionRecord
    scripts,             \* script_id -> ScriptRecord
    next_session_id,
    next_script_id,
    process_list_cache,  \* Option<ProcessListCache>: <<>> or <<cache>>
    default_script,      \* kind of the embedded DEFAULT_SCRIPT_BYTES
    \* toolkit
    tk_sessions,         \* Session handle -> is_detached()
    heap,                \* leaked Script boxes: ptr -> [session_id, script_id, handler, freed]
    tk_procs,            \* pids running on the device
    now,                 \* Instant::now(), in seconds
    events,              \* what app.emit has sent, in order
    \* bridge
    queue,               \* the mpsc channel of jobs
    tx_open,             \* FridaWorker (the Sender) not dropped
    callers,             \* caller -> [st, seq]
    replies,             \* the one-shot reply channels: job seq -> result
    \* actor thread
    pc,                  \* position of the actor thread
    job,                 \* the job being executed
    locals,              \* locals of the running handler
    trace,               \* toolkit calls and registry effects of the running job, in order
    \* history
    accepted,            \* number of jobs accepted into the queue
    exec_order,          \* seq numbers of jobs in the order the actor started them
    finished,            \* seq numbers of the jobs that ran to completion
    pre,                 \* FridaContext at the start of the running job
    last                 \* the job completed last, with its result

ctxVars == <<sessions, scripts, next_session_id, next_script_id, process_list_cache, default_script>>
tkVars == <<tk_sessions, heap, tk_procs, now, events>>
bridgeVars == <<queue, tx_open, callers, replies>>
actorVars == <<pc, job, locals, trace>>
histVars == <<accepted, exec_order, finished, pre, last>>
vars == <<ctxVars, tkVars, bridgeVars, actorVars, histVars>>

Callers == 1..NumCallers
\* What build.rs embeds as DEFAULT_SCRIPT_BYTES: the agent bundle, the sentinel it
\* writes when the bundle is absent, or a bundle that is not UTF-8, is blank or
\* holds a NUL byte.
AgentKinds == {"bundle", "sentinel", "not_utf8", "blank", "nul"}

NoJob == [op |-> "none", device_id |-> <<>>, pid |-> 0, id |-> 0, message |-> <<>>,
          program |-> <<>>, argv |-> <<>>, caller |-> 0, seq |-> 0]
PollJob == [NoJob EXCEPT !.op = "poll"]
NoLocals == [session_id |-> 0, todo |-> <<>>, record |-> <<>>, load_result |-> NoResult,
             detached_ids |-> {}, reported |-> {}, result |-> NoResult]

Snapshot == [sessions |-> sessions, scripts |-> scripts, next_session_id |-> next_session_id,
             next_script_id |-> next_script_id, process_list_cache |-> process_list_cache,
             n_events |-> Len(events), n_heap |-> Len(heap),
             detached |-> {id \in DOMAIN sessions : tk_sessions[sessions[id].session]}]
NoLast == [job |-> NoJob, result |-> NoResult, pre |-> <<>>]

\* FridaContext::new and FridaWorker::new
InitWith(first_id) ==
    /\ sessions = EmptyMap
    /\ scripts = EmptyMap
    /\ next_session_id = first_id
    /\ next_script_id = first_id
    /\ process_list_cache = <<>>
    /\ default_script \in AgentKinds
    /\ tk_sessions = <<>>
    /\ heap = <<>>
    /\ tk_procs = RunningPids
    /\ now = 0
    /\ events = <<>>
    /\ queue = <<>>
    /\ tx_open = TRUE
    /\ callers = [c \in Callers |-> [st |-> "idle", seq |-> 0]]
    /\ replies = EmptyMap
    /\ pc = "idle"
    /\ job = NoJob
    /\ locals = NoLocals
    /\ trace = <<>>
    /\ accepted = 0
    /\ exec_order = <<>>
    /\ finished = {}
    /\ pre = <<>>
    /\ last = NoLast

Init == InitWith(1)

\* ------------------------------------------------- handlers as operators
T(call, id) == [call |-> call, id |-> id]
\* The trace entries that are calls into the toolkit (a call that reports
\* something carries what it reported).
TkCalls == {"get_device_by_id", "device.attach", "is_detached:true", "is_detached:false",
            "create_script", "handle_message", "script.load", "script.unload:ok", "script.unload:err", "script.post",
            "session.detach:ok", "session.detach:err", "device.spawn", "device.resume",
            "device.kill", "enumerate_processes"}
IsDetachedCall(flag) == IF flag THEN "is_detached:true" ELSE "is_detached:false"

Event(name, session_id, script_id, reason) ==
    [name |-> name, session_id |-> session_id, script_id |-> script_id, reason |-> reason]

\* (mutant) no handle ever reports detached
is_detached_never(record) == FALSE

\* record.session.is_detached()
is_detached(record) == tk_sessions[record.session]

\* The leaked Script with the TauriScriptHandler it holds; `delivered` is the
\* callbacks the toolkit has made into that handler.
Box(session_id, script_id, handler, freed) ==
    [session_id |-> session_id, script_id |-> script_id, handler |-> handler, freed |-> freed,
     delivered |-> <<>>]

\* (mutants) the box is never reclaimed; the box is reclaimed twice
Reclaim_leak(freed) == freed
Reclaim_twice(freed) == freed + 2

\* let _ = Box::from_raw(script_ptr): the number of times the box has been dropped
Reclaim(freed) == freed + 1

\* What a handler leaves behind: the parts of the state load_default_script,
\* unload_script and script_post can change, and their result.
Effect == [sessions |-> sessions, scripts |-> scripts, next_script_id |-> next_script_id,
           heap |-> heap, trace |-> trace, result |-> NoResult]

LoadOutcomes == {"ok", "create_fail", "handler_fail", "load_fail"}

\* (mutant) an unknown session id is not an error
UnknownSession_ok == Ok(<<>>)

\* self.sessions.get(&session_id).ok_or_else(|| "Unknown session_id".to_string())
UnknownSession == Err(E_UnknownSession)

\* self.scripts.insert(script_id, ..); record.script_ids.push(script_id)
RegisterScript(e, session_id, script_id, ptr) ==
    [e EXCEPT !.scripts = MapInsert(e.scripts, script_id, [session_id |-> session_id, script |-> ptr]),
              !.sessions = [e.sessions EXCEPT ![session_id].script_ids = Append(@, script_id)],
              !.trace = e.trace \o <<T("scripts.insert", script_id)>>]

\* FridaContext::load_default_script
LoadDefaultScript(session_id, outcome) ==
    IF default_script = "not_utf8" THEN [Effect EXCEPT !.result = Err(E_AgentNotUtf8)]
    ELSE IF default_script = "sentinel" THEN [Effect EXCEPT !.result = Err(E_AgentMissing)]
    ELSE IF default_script = "blank" THEN [Effect EXCEPT !.result = Err(E_AgentEmpty)]
    ELSE IF default_script = "nul" THEN [Effect EXCEPT !.result = Err(E_NulDefaultScript)]
    ELSE IF session_id \notin DOMAIN sessions THEN [Effect EXCEPT !.result = UnknownSession]
    ELSE IF is_detached(sessions[session_id])
    THEN [Effect EXCEPT !.trace = trace \o <<T("is_detached:true", session_id)>>,
                        !.result = Err(E_SessionDetached)]
    ELSE
      LET script_id == next_script_id
          ptr == Len(heap) + 1
          e0 == [Effect EXCEPT !.next_script_id = saturating_add(next_script_id),
                               !.trace = trace \o <<T("is_detached:false", session_id),
                                                    T("create_script", script_id)>>]
          e1(handler, freed) ==
              [e0 EXCEPT !.heap = Append(heap, Box(session_id, script_id, handler, freed)),
                         !.trace = e0.trace \o <<T("handle_message", script_id)>>]
          e2(freed) == [e1(TRUE, freed) EXCEPT !.trace = e1(TRUE, freed).trace \o <<T("script.load", script_id)>>]
      IN  IF outcome = "create_fail" THEN [e0 EXCEPT !.result = Err(E_Frida)]
          ELSE IF outcome = "handler_fail"
          THEN [e1(FALSE, Reclaim(0)) EXCEPT !.trace = e1(FALSE, 0).trace \o <<T("free", ptr)>>,
                                    !.result = Err(E_Frida)]
          ELSE IF outcome = "load_fail"
          THEN [e2(Reclaim(0)) EXCEPT !.trace = e2(0).trace \o <<T("free", ptr)>>,
                             !.result = Err(E_Frida)]
          ELSE [RegisterScript(e2(0), session_id, script_id, ptr) EXCEPT !.result = Ok(<<script_id>>)]

\* (mutant) the toolkit unload is requested whenever the session is registered
should_unload_registered(sess, session_id) == session_id \in DOMAIN sess

\* unload_script: whether the toolkit unload is requested
should_unload(sess, session_id) ==
    IF session_id \in DOMAIN sess THEN ~is_detached(sess[session_id]) ELSE FALSE

\* (mutant) the id stays in the owning session's script_ids
RetainScriptIds_skip(sess, session_id, script_id) == sess

\* session.script_ids.retain(|id| *id != script_id), when the session is registered
RetainScriptIds(sess, session_id, script_id) ==
    IF session_id \in DOMAIN sess
    THEN [sess EXCEPT ![session_id].script_ids = Retain(@, script_id)]
    ELSE sess

UnloadOutcomes == {"ok", "err"}

\* (mutant) the script record is looked up and left in the registry
RemoveScript_keep(scr, script_id) == scr

\* unload_script: self.scripts.remove(&script_id)
RemoveScript(scr, script_id) == MapRemove(scr, script_id)

\* FridaContext::unload_script
UnloadScript(script_id, outcome) ==
    IF script_id \notin DOMAIN scripts THEN [Effect EXCEPT !.result = Err(E_UnknownScript)]
    ELSE
      LET record == scripts[script_id]
          sess == RetainScriptIds(sessions, record.session_id, script_id)
          unload == should_unload(sess, record.session_id)
          queried == IF record.session_id \in DOMAIN sess
                     THEN <<T(IsDetachedCall(is_detached(sess[record.session_id])),
                              record.session_id)>>
                     ELSE <<>>
          called == IF ~unload THEN <<>>
                    ELSE IF outcome = "ok" THEN <<T("script.unload:ok", script_id)>>
                    ELSE <<T("script.unload:err", script_id)>>
      IN  [Effect EXCEPT
             !.scripts = RemoveScript(scripts, script_id),
             !.sessions = sess,
             !.heap = [heap EXCEPT ![record.script].freed = Reclaim(@)],
             !.trace = trace \o <<T("scripts.remove", script_id)>> \o queried \o called
                             \o <<T("free", record.script)>>,
             !.result = IF unload /\ outcome = "err" THEN Err(E_Frida) ELSE Ok(<<>>)]

PostOutcomes == {"ok", "err"}

\* (mutant) the handle is not asked whether it is detached
SessionUsable_registered(sess, session_id) == session_id \in DOMAIN sess

\* script_post: the owning session is registered and its handle is not detached
SessionUsable(sess, session_id) ==
    IF session_id \in DOMAIN sess THEN ~is_detached(sess[session_id]) ELSE FALSE

\* FridaContext::script_post
ScriptPost(script_id, message, outcome) ==
    IF script_id \notin DOMAIN scripts THEN [Effect EXCEPT !.result = Err(E_UnknownScript)]
    ELSE
      LET record == scripts[script_id]
      IN  IF record.session_id \notin DOMAIN sessions
          THEN [Effect EXCEPT !.result = Err(E_SessionDetached)]
          ELSE
            LET queried == <<T(IsDetachedCall(is_detached(sessions[record.session_id])),
                               record.session_id)>>
            IN  IF ~SessionUsable(sessions, record.session_id)
                THEN [Effect EXCEPT !.trace = trace \o queried,
                                    !.result = Err(E_SessionDetached)]
                ELSE IF validate_no_nul(to_string(message))
                THEN [Effect EXCEPT !.trace = trace \o queried,
                                    !.result = Err(E_NulMessage)]
                ELSE [Effect EXCEPT !.trace = trace \o queried \o <<T("script.post", script_id)>>,
                              !.result = IF outcome = "ok" THEN Ok(<<>>) ELSE Err(E_Frida)]

Apply(e) ==
    /\ sessions' = e.sessions
    /\ scripts' = e.scripts
    /\ next_script_id' = e.next_script_id
    /\ heap' = e.heap
    /\ trace' = e.trace

\* ------------------------------------------------------ the bridge (callers)
Job(op, device_id, pid, id, message, program, argv) ==
    [op |-> op, device_id |-> device_id, pid |-> pid, id |-> id, message |-> message,
     program |-> program, argv |-> argv, caller |-> 0, seq |-> 0]

\* The requests callers make. An Option is a sequence of length 0 (None) or 1 (Some).
CoreJobs ==
    {Job("attach", STR_local, p, 0, <<>>, <<>>, <<>>) : p \in RunningPids}
    \cup {Job(op, <<>>, 0, i, <<>>, <<>>, <<>>) : op \in {"detach", "load", "unload"}, i \in 1..MaxId}
    \cup {Job("post", <<>>, 0, i, STR_ping, <<>>, <<>>) : i \in 1..MaxId}
    \cup {Job("list", STR_local, 0, 0, <<>>, <<>>, <<>>)}
    \cup {Job("spawn", STR_local, 0, 0, <<>>, STR_ls, <<>>)}
    \cup {Job("kill", STR_local, p, 0, <<>>, <<>>, <<>>) : p \in RunningPids}

\* Requests of one caller with every kind of string input: plain, holding a NUL
\* byte, naming a device the toolkit does not know, naming the socket device.
InputJobs ==
    {Job("attach", d, p, 0, <<>>, <<>>, <<>>) : d \in {STR_local, STR_a0b, STR_usb}, p \in RunningPids}
    \cup {Job("list", d, 0, 0, <<>>, <<>>, <<>>) :
               d \in {STR_local, STR_remote, STR_a0b, STR_socket, STR_usb}}
    \cup {Job("spawn", d, 0, 0, <<>>, STR_ls, <<>>) : d \in {STR_local, STR_a0b, STR_usb}}
    \cup {Job("spawn", STR_local, 0, 0, <<>>, STR_a0b, <<>>)}
    \cup {Job("spawn", STR_local, 0, 0, <<>>, STR_ls, <<argv>>) : argv \in {<<STR_ping>>, <<STR_ping, STR_a0b>>}}
    \cup {Job(op, d, p, 0, <<>>, <<>>, <<>>) : op \in {"resume", "kill"}, d \in {STR_local, STR_a0b}, p \in RunningPids}
    \cup {Job("post", <<>>, 0, 1, m, <<>>, <<>>) : m \in {STR_ping, STR_a0b}}
    \cup {Job(op, <<>>, 0, 1, <<>>, <<>>, <<>>) : op \in {"detach", "load", "unload"}}

\* The actor thread is running (it has neither left run() nor panicked).
ActorAlive == pc \notin {"exited", "dead"}

\* FridaWorker::request, up to self.tx.send(job)
Submit(c, j) ==
    /\ tx_open
    /\ ActorAlive
    /\ callers[c].st = "idle"
    /\ accepted < MaxJobs
    /\ queue' = Append(queue, [j EXCEPT !.caller = c, !.seq = accepted + 1])
    /\ callers' = [callers EXCEPT ![c] = [st |-> "waiting", seq |-> accepted + 1]]
    /\ accepted' = accepted + 1
    /\ UNCHANGED <<ctxVars, tkVars, actorVars, tx_open, replies, exec_order, finished, pre, last>>

\* FridaWorker::request, reply_rx.recv()
Receive(c) ==
    /\ callers[c].st = "waiting"
    /\ callers[c].seq \in DOMAIN replies
    /\ callers' = [callers EXCEPT ![c] = [st |-> "idle", seq |-> 0]]
    /\ replies' = MapRemove(replies, callers[c].seq)
    /\ UNCHANGED <<ctxVars, tkVars, actorVars, histVars, queue, tx_open>>

\* FridaWorker::request when the actor thread is gone: self.tx.send(job) fails and
\* the request returns at once.
SubmitAfterExit(c, j) ==
    /\ tx_open
    /\ pc = "dead"
    /\ callers[c].st = "idle"
    /\ accepted < MaxJobs
    /\ callers' = [callers EXCEPT ![c] = [st |-> "waiting", seq |-> accepted + 1]]
    /\ replies' = MapInsert(replies, accepted + 1, SendFailed)
    /\ accepted' = accepted + 1
    /\ UNCHANGED <<ctxVars, tkVars, actorVars, queue, tx_open, exec_order, finished, pre, last>>

\* The caller's future is dropped while it waits: the caller waits no longer, the
\* job stays where it is and its reply will find no reader.
Abandon(c) ==
    /\ callers[c].st = "waiting"
    /\ callers' = [callers EXCEPT ![c] = [st |-> "idle", seq |-> 0]]
    /\ UNCHANGED <<ctxVars, tkVars, actorVars, histVars, queue, tx_open, replies>>

\* The FridaWorker is dropped: no caller is inside request(), which borrows it.
CloseQueue ==
    /\ tx_open
    /\ \A c \in Callers : callers[c].st = "idle"
    /\ tx_open' = FALSE
    /\ UNCHANGED <<ctxVars, tkVars, actorVars, histVars, queue, callers, replies>>

\* ------------------------------------------------------- the actor thread
\* (mutant) a second consumer takes jobs while one is running
ActorFree_always == TRUE

\* FridaContext::run executes job(self) to its end before the next recv_timeout.
ActorFree == pc = "idle"

\* (mutant) the newest job is taken first
NextJobIndex_last(q) == Len(q)

\* rx.recv_timeout takes the job at the head of the channel.
NextJobIndex(q) == 1

RemoveAt(q, i) == SubSeq(q, 1, i - 1) \o SubSeq(q, i + 1, Len(q))

Done(result) ==
    /\ locals' = [locals EXCEPT !.result = result]
    /\ pc' = "reply"

\* run: Ok(job) => job(self)
Recv ==
    /\ ActorFree
    /\ pc # "exited"
    /\ queue # <<>>
    /\ job' = queue[NextJobIndex(queue)]
    /\ queue' = RemoveAt(queue, NextJobIndex(queue))
    /\ pc' = job'.op
    /\ locals' = NoLocals
    /\ trace' = <<>>
    /\ pre' = Snapshot
    /\ exec_order' = Append(exec_order, job'.seq)
    /\ UNCHANGED <<ctxVars, tkVars, tx_open, callers, replies, accepted, finished, last>>

\* (mutant) every reply goes to the channel of the first caller
ReplyChannel_first(j) == callers[CHOOSE c \in Callers : TRUE].seq

\* request: the reply_tx the job closure owns
ReplyChannel(j) == j.seq

\* the job closure's end: reply_tx.send(result)
Reply ==
    /\ pc = "reply"
    /\ replies' = MapInsert(replies, ReplyChannel(job), locals.result)
    /\ finished' = finished \cup {job.seq}
    /\ last' = [job |-> job, result |-> locals.result, pre |-> pre]
    /\ pc' = "idle"
    /\ job' = NoJob
    /\ locals' = NoLocals
    /\ trace' = <<>>
    /\ pre' = <<>>
    /\ UNCHANGED <<ctxVars, tkVars, queue, tx_open, callers, accepted, exec_order>>

\* (mutant) the loop ends as soon as the sender is dropped
ChannelDisconnected_eager(q, open) == ~open

\* recv_timeout returns Disconnected when every sender is dropped and no job is left
ChannelDisconnected(q, open) == q = <<>> /\ ~open

\* run: Err(RecvTimeoutError::Disconnected) => break
Disconnected ==
    /\ pc = "idle"
    /\ ChannelDisconnected(queue, tx_open)
    /\ pc' = "exited"
    /\ UNCHANGED <<ctxVars, tkVars, bridgeVars, histVars, job, locals, trace>>

\* The reply channels of the jobs the actor thread drops when it unwinds: the
\* running job's and those of the jobs still in the queue.
RECURSIVE DropAll(_, _)
DropAll(r, seqs) ==
    IF seqs = {} THEN r
    ELSE LET q == CHOOSE x \in seqs : TRUE
         IN  DropAll(IF q \in DOMAIN r THEN r ELSE MapInsert(r, q, Dropped), seqs \ {q})

\* The actor thread panics inside a job or a poller run: the closure and the
\* Receiver, with the jobs it holds, are dropped.
Panic ==
    /\ pc \notin {"idle", "exited", "dead"}
    /\ pc' = "dead"
    /\ replies' = DropAll(replies, ({job.seq} \ {0}) \cup {queue[i].seq : i \in 1..Len(queue)})
    /\ queue' = <<>>
    /\ job' = NoJob
    /\ locals' = NoLocals
    /\ trace' = <<>>
    /\ pre' = <<>>
    /\ UNCHANGED <<ctxVars, tkVars, tx_open, callers, accepted, exec_order, finished, last>>

Emit(e) == events' = Append(events, e)

\* (mutant) the session is left registered when the script load fails
Rollback_none(sess, session_id) == sess

\* (mutant) the rollback empties the session registry
Rollback_all(sess, session_id) == EmptyMap

\* attach: the failure arm of the match on load_default_script
Rollback(sess, session_id) == MapRemove(sess, session_id)

\* FridaContext::attach, up to self.sessions.insert
AttachBegin ==
    /\ pc = "attach"
    /\ IF validate_no_nul(job.device_id)
       THEN /\ Done(Err(E_NulDeviceId))
            /\ UNCHANGED <<sessions, next_session_id, tk_sessions, trace>>
       ELSE IF job.device_id \notin TkDeviceIds
       THEN /\ Done(Err(E_Frida))
            /\ trace' = trace \o <<T("get_device_by_id", 0)>>
            /\ UNCHANGED <<sessions, next_session_id, tk_sessions>>
       ELSE \E attached \in BOOLEAN :
              IF ~attached
              THEN /\ Done(Err(E_Frida))
                   /\ trace' = trace \o <<T("get_device_by_id", 0), T("device.attach", job.pid)>>
                   /\ UNCHANGED <<sessions, next_session_id, tk_sessions>>
              ELSE LET session_id == next_session_id
                       handle == Len(tk_sessions) + 1
                   IN  /\ tk_sessions' = Append(tk_sessions, FALSE)
                       /\ next_session_id' = saturating_add(next_session_id)
                       /\ sessions' = MapInsert(sessions, session_id,
                              [device_id |-> job.device_id, pid |-> job.pid,
                               session |-> handle, script_ids |-> <<>>])
                       /\ trace' = trace \o <<T("get_device_by_id", 0), T("device.attach", job.pid),
                                               T("sessions.insert", session_id)>>
                       /\ locals' = [locals EXCEPT !.session_id = session_id]
                       /\ pc' = "attach_load"
    /\ UNCHANGED <<scripts, next_script_id, process_list_cache, default_script, heap, tk_procs,
                   now, events, bridgeVars, histVars, job>>

\* attach: self.load_default_script(session_id)
AttachLoad ==
    /\ pc = "attach_load"
    /\ \E outcome \in LoadOutcomes :
         LET e == LoadDefaultScript(locals.session_id, outcome)
         IN  /\ Apply(e)
             /\ locals' = [locals EXCEPT !.load_result = e.result]
    /\ pc' = "attach_finish"
    /\ UNCHANGED <<next_session_id, process_list_cache, default_script, tk_sessions, tk_procs,
                   now, events, bridgeVars, histVars, job>>

\* attach: the match on the result of load_default_script, to the return
AttachFinish ==
    /\ pc = "attach_finish"
    /\ IF locals.load_result.ok
       THEN /\ Emit(Event("frida_session_attached", locals.session_id,
                          locals.load_result.val[1], ""))
            /\ trace' = trace \o <<T("emit", locals.session_id)>>
            /\ Done(Ok(<<locals.session_id, locals.load_result.val[1]>>))
            /\ UNCHANGED sessions
       ELSE /\ sessions' = Rollback(sessions, locals.session_id)
            /\ trace' = trace \o <<T("sessions.remove", locals.session_id)>>
            /\ Done(locals.load_result)
            /\ UNCHANGED events
    /\ UNCHANGED <<scripts, next_session_id, next_script_id, process_list_cache, default_script,
                   tk_sessions, heap, tk_procs, now, bridgeVars, histVars, job>>

\* (mutant) no script is unloaded before the session goes
CascadeIds_none(record) == <<>>

\* (mutant) the teardown stops after the first script
CascadeIds_first(record) == IF record.script_ids = <<>> THEN <<>> ELSE <<Head(record.script_ids)>>

\* detach and poll_detached_sessions: the script ids to unload, record.script_ids.clone()
CascadeIds(record) == record.script_ids

\* (mutants) the record is always put back; the record is never put back
AfterFailedDetach_reinsert(sess, session_id, record, detached) == MapInsert(sess, session_id, record)
AfterFailedDetach_drop(sess, session_id, record, detached) == sess

\* detach, Err(e) of record.session.detach(): the record is put back unless the
\* handle reports detached
AfterFailedDetach(sess, session_id, record, detached) ==
    IF detached THEN sess ELSE MapInsert(sess, session_id, record)

\* FridaContext::detach: the lookup and the clone of script_ids
DetachBegin ==
    /\ pc = "detach"
    /\ IF job.id \notin DOMAIN sessions
       THEN Done(UnknownSession)
       ELSE /\ locals' = [locals EXCEPT !.session_id = job.id,
                                        !.todo = CascadeIds(sessions[job.id])]
            /\ pc' = "detach_unload"
    /\ UNCHANGED <<ctxVars, tkVars, bridgeVars, histVars, job, trace>>

\* detach: one turn of `for script_id in script_ids { let _ = self.unload_script(script_id); }`
DetachUnload ==
    /\ pc = "detach_unload"
    /\ locals.todo # <<>>
    /\ \E outcome \in UnloadOutcomes : Apply(UnloadScript(Head(locals.todo), outcome))
    /\ locals' = [locals EXCEPT !.todo = Tail(@)]
    /\ UNCHANGED <<next_session_id, process_list_cache, default_script, tk_sessions, tk_procs,
                   now, events, bridgeVars, histVars, job, pc>>

\* detach: self.sessions.remove and record.session.detach()
DetachRemove ==
    /\ pc = "detach_unload"
    /\ locals.todo = <<>>
    /\ IF locals.session_id \notin DOMAIN sessions
       THEN /\ Done(UnknownSession)
            /\ UNCHANGED <<sessions, tk_sessions, events, trace>>
       ELSE LET record == sessions[locals.session_id]
            IN  /\ sessions' = MapRemove(sessions, locals.session_id)
                /\ \E detached \in BOOLEAN :
                     IF detached
                     THEN /\ tk_sessions' = [tk_sessions EXCEPT ![record.session] = TRUE]
                          /\ Emit(Event("frida_session_detached", locals.session_id, 0, "user"))
                          /\ trace' = trace \o <<T("sessions.remove", locals.session_id),
                                                  T("session.detach:ok", locals.session_id),
                                                  T("emit", locals.session_id)>>
                          /\ Done(Ok(<<>>))
                     ELSE /\ locals' = [locals EXCEPT !.record = <<record>>]
                          /\ trace' = trace \o <<T("sessions.remove", locals.session_id),
                                                  T("session.detach:err", locals.session_id)>>
                          /\ pc' = "detach_failed"
                          /\ UNCHANGED <<tk_sessions, events>>
    /\ UNCHANGED <<scripts, next_session_id, next_script_id, process_list_cache, default_script,
                   heap, tk_procs, now, bridgeVars, histVars, job>>

\* detach: Err(e) of record.session.detach()
DetachFailed ==
    /\ pc = "detach_failed"
    /\ LET record == locals.record[1]
       IN  /\ sessions' = AfterFailedDetach(sessions, locals.session_id, record, is_detached(record))
           /\ IF is_detached(record)
              THEN /\ Emit(Event("frida_session_detached", locals.session_id, 0, "disposed"))
                   /\ trace' = trace \o <<T("is_detached:true", locals.session_id),
                                           T("emit", locals.session_id)>>
                   /\ Done(Ok(<<>>))
              ELSE /\ trace' = trace \o <<T("is_detached:false", locals.session_id),
                                           T("sessions.insert", locals.session_id)>>
                   /\ Done(Err(E_Frida))
                   /\ UNCHANGED events
    /\ UNCHANGED <<scripts, next_session_id, next_script_id, process_list_cache, default_script,
                   tk_sessions, heap, tk_procs, now, bridgeVars, histVars, job>>

\* the load_default_script, unload_script and script_post jobs
LoadStep ==
    /\ pc = "load"
    /\ \E outcome \in LoadOutcomes :
         LET e == LoadDefaultScript(job.id, outcome) IN Apply(e) /\ Done(e.result)
    /\ UNCHANGED <<next_session_id, process_list_cache, default_script, tk_sessions, tk_procs,
                   now, events, bridgeVars, histVars, job>>

UnloadStep ==
    /\ pc = "unload"
    /\ \E outcome \in UnloadOutcomes :
         LET e == UnloadScript(job.id, outcome) IN Apply(e) /\ Done(e.result)
    /\ UNCHANGED <<next_session_id, process_list_cache, default_script, tk_sessions, tk_procs,
                   now, events, bridgeVars, histVars, job>>

PostStep ==
    /\ pc = "post"
    /\ \E outcome \in PostOutcomes :
         LET e == ScriptPost(job.id, job.message, outcome) IN Apply(e) /\ Done(e.result)
    /\ UNCHANGED <<next_session_id, process_list_cache, default_script, tk_sessions, tk_procs,
                   now, events, bridgeVars, histVars, job>>

\* ------------------------------------------------------ the health poller
\* (mutant) the poller takes every registered session for detached
DetachedIds_all == DOMAIN sessions

\* (mutant) the poller finds no session detached
DetachedIds_none == {}

\* poll_detached_sessions: the ids whose handle reports detached
DetachedIds == {session_id \in DOMAIN sessions : is_detached(sessions[session_id])}

\* (mutant) the wait times out although a job is available
TimedOut_any(q) == TRUE

\* rx.recv_timeout(100 ms) returns Timeout only when no job became available
TimedOut(q) == q = <<>>

\* run: Err(RecvTimeoutError::Timeout) => self.poll_detached_sessions()
Timeout ==
    /\ ActorFree
    /\ pc # "exited"
    /\ TimedOut(queue)
    /\ tx_open
    /\ IF DetachedIds = {}
       THEN UNCHANGED <<pc, job, locals, pre>>
       ELSE /\ pc' = "poll"
            /\ job' = PollJob
            /\ locals' = [NoLocals EXCEPT !.detached_ids = DetachedIds, !.reported = DetachedIds]
            /\ pre' = Snapshot
    /\ trace' = <<>>
    /\ UNCHANGED <<ctxVars, tkVars, bridgeVars, accepted, exec_order, finished, last>>

\* (mutant) the poller reports the session and leaves it registered
RemoveSession_keep(sess, session_id) == sess

\* poll_detached_sessions: self.sessions.remove(&session_id)
RemoveSession(sess, session_id) == MapRemove(sess, session_id)

\* poll_detached_sessions: the next session of `for session_id in detached_ids`
\* (the ids come out of the HashMap in any order)
PollBegin ==
    /\ pc = "poll"
    /\ locals.detached_ids # {}
    /\ \E session_id \in locals.detached_ids :
         locals' = [locals EXCEPT !.session_id = session_id,
                                  !.todo = IF session_id \in DOMAIN sessions
                                           THEN CascadeIds(sessions[session_id]) ELSE <<>>]
    /\ pc' = "poll_unload"
    /\ UNCHANGED <<ctxVars, tkVars, bridgeVars, histVars, job, trace>>

PollUnload ==
    /\ pc = "poll_unload"
    /\ locals.todo # <<>>
    /\ \E outcome \in UnloadOutcomes : Apply(UnloadScript(Head(locals.todo), outcome))
    /\ locals' = [locals EXCEPT !.todo = Tail(@)]
    /\ UNCHANGED <<next_session_id, process_list_cache, default_script, tk_sessions, tk_procs,
                   now, events, bridgeVars, histVars, job, pc>>

\* poll_detached_sessions: self.sessions.remove and the emit
PollRemove ==
    /\ pc = "poll_unload"
    /\ locals.todo = <<>>
    /\ sessions' = RemoveSession(sessions, locals.session_id)
    /\ Emit(Event("frida_session_detached", locals.session_id, 0, "disposed"))
    /\ pc' = "poll"
    /\ locals' = [locals EXCEPT !.detached_ids = @ \ {locals.session_id}, !.session_id = 0]
    /\ trace' = trace \o <<T("sessions.remove", locals.session_id), T("emit", locals.session_id)>>
    /\ UNCHANGED <<scripts, next_session_id, next_script_id, process_list_cache, default_script,
                   tk_sessions, heap, tk_procs, now, bridgeVars, histVars, job>>

\* poll_detached_sessions: the end of `for session_id in detached_ids`, back to run's loop
PollEnd ==
    /\ pc = "poll"
    /\ locals.detached_ids = {}
    /\ pc' = "idle"
    /\ job' = NoJob
    /\ locals' = NoLocals
    /\ trace' = <<>>
    /\ pre' = <<>>
    /\ UNCHANGED <<ctxVars, tkVars, bridgeVars, accepted, exec_order, finished, last>>

\* ------------------------------------------------------------ environment
\* Session handles the actor still holds: in the registry, or in detach's local.
LiveHandles ==
    {sessions[i].session : i \in DOMAIN sessions}
    \cup {locals.record[i].session : i \in 1..Len(locals.record)}

\* The target process exits or the toolkit disposes the session.
ExternalDetach(handle) ==
    /\ handle \in LiveHandles
    /\ ~tk_sessions[handle]
    /\ tk_sessions' = [tk_sessions EXCEPT ![handle] = TRUE]
    /\ UNCHANGED <<ctxVars, heap, tk_procs, now, events, bridgeVars, actorVars, histVars>>

\* ------------------------------------------------------- script messages
\* frida::Message, with the data the toolkit passes alongside.
MessageKinds == {"Send", "Log", "Error", "Other"}
Messages == {[kind |-> k, payload |-> STR_ping, data |-> <<>>] : k \in MessageKinds}

\* on_message: message_value
MessageValue(m) ==
    [type |-> CASE m.kind = "Send" -> "send"
                [] m.kind = "Log" -> "log"
                [] m.kind = "Error" -> "error"
                [] OTHER -> "other",
     payload |-> m.payload]

\* on_message: payload
ScriptMessage(session_id, script_id, m) ==
    [name |-> "frida_script_message", session_id |-> session_id, script_id |-> script_id,
     reason |-> "", message |-> MessageValue(m), data |-> m.data]

\* (mutant) messages of the Other kind are not forwarded
Forwarded_known(box, m) ==
    IF m.kind = "Other" THEN <<>> ELSE <<ScriptMessage(box.session_id, box.script_id, m)>>

\* on_message: what one callback emits
Forwarded(box, m) == <<ScriptMessage(box.session_id, box.script_id, m)>>

RECURSIVE Callbacks(_)
Callbacks(h) == IF h = <<>> THEN 0 ELSE Len(Head(h).delivered) + Callbacks(Tail(h))

\* The toolkit's thread calls the handler of a script that has one and has not
\* been dropped.
OnMessage(ptr, m) ==
    /\ heap[ptr].handler
    /\ heap[ptr].freed = 0
    /\ Callbacks(heap) < MaxMessages
    /\ heap' = [heap EXCEPT ![ptr].delivered = Append(@, m)]
    /\ events' = events \o Forwarded(heap[ptr], m)
    /\ UNCHANGED <<ctxVars, tk_sessions, tk_procs, now, bridgeVars, actorVars, histVars>>

\* ------------------------------------------------------- process operations
\* device.enumerate_processes() mapped to Vec<ProcessInfo>, in pid order
RECURSIVE ProcessInfos(_)
ProcessInfos(pids) ==
    IF pids = {} THEN <<>>
    ELSE LET p == CHOOSE x \in pids : \A y \in pids : x <= y
         IN  <<[pid |-> p, name |-> "proc"]>> \o ProcessInfos(pids \ {p})

\* (mutant) an entry fetched exactly TTL ago is still served
CacheHit_late(cache, device_id, t) ==
    /\ cache # <<>>
    /\ cache[1].device_id = device_id
    /\ t - cache[1].fetched_at <= TTL_SECS

\* list_processes: cache.fetched_at.elapsed() is read when the cache holds the device
Elapsed(cache, device_id, t) ==
    IF cache # <<>> /\ cache[1].device_id = device_id
    THEN <<T("elapsed", t - cache[1].fetched_at)>> ELSE <<>>

\* list_processes: the cache answers the call
CacheHit(cache, device_id, t) ==
    /\ cache # <<>>
    /\ cache[1].device_id = device_id
    /\ t - cache[1].fetched_at < TTL_SECS

\* FridaContext::list_processes
ListStep ==
    /\ pc = "list"
    /\ IF validate_no_nul(job.device_id)
       THEN Done(Err(E_NulDeviceId)) /\ UNCHANGED <<process_list_cache, trace>>
       ELSE IF job.device_id = STR_socket
       THEN Done(Err(E_SocketUnsupported)) /\ UNCHANGED <<process_list_cache, trace>>
       ELSE LET probe == trace \o Elapsed(process_list_cache, job.device_id, now)
            IN  IF CacheHit(process_list_cache, job.device_id, now)
                THEN /\ Done(Ok(process_list_cache[1].processes))
                     /\ trace' = probe
                     /\ UNCHANGED process_list_cache
                ELSE IF job.device_id \notin TkDeviceIds
                THEN /\ Done(Err(E_Frida))
                     /\ trace' = probe \o <<T("get_device_by_id", 0)>>
                     /\ UNCHANGED process_list_cache
                ELSE LET infos == ProcessInfos(tk_procs)
                     IN  /\ process_list_cache' = <<[device_id |-> job.device_id,
                                                     fetched_at |-> now, processes |-> infos]>>
                         /\ trace' = probe \o <<T("get_device_by_id", 0),
                                                 T("enumerate_processes", 0),
                                                 T("cache.store", now)>>
                         /\ Done(Ok(infos))
    /\ UNCHANGED <<sessions, scripts, next_session_id, next_script_id, default_script, tkVars,
                   bridgeVars, histVars, job>>

\* Option<Vec<String>>: some element of argv fails validate_no_nul
ArgvHasNul(argv) == \E i \in 1..Len(argv) : \E k \in 1..Len(argv[i]) : validate_no_nul(argv[i][k])

\* (mutant) spawn and kill leave the cache as it is
Invalidate_keep(cache) == cache

\* spawn, kill: self.process_list_cache = None
Invalidate(cache) == <<>>

\* FridaContext::spawn
SpawnStep ==
    /\ pc = "spawn"
    /\ IF validate_no_nul(job.device_id)
       THEN Done(Err(E_NulDeviceId)) /\ UNCHANGED <<process_list_cache, trace, tk_procs>>
       ELSE IF validate_no_nul(job.program)
       THEN Done(Err(E_NulProgram)) /\ UNCHANGED <<process_list_cache, trace, tk_procs>>
       ELSE /\ process_list_cache' = Invalidate(process_list_cache)
            /\ IF ArgvHasNul(job.argv)
               THEN /\ Done(Err(E_NulArgv))
                    /\ trace' = trace \o <<T("cache.clear", 0)>>
                    /\ UNCHANGED tk_procs
               ELSE IF job.device_id \notin TkDeviceIds
               THEN /\ Done(Err(E_Frida))
                    /\ trace' = trace \o <<T("cache.clear", 0), T("get_device_by_id", 0)>>
                    /\ UNCHANGED tk_procs
               ELSE /\ trace' = trace \o <<T("cache.clear", 0), T("get_device_by_id", 0),
                                            T("device.spawn", 0)>>
                    /\ \/ Done(Err(E_Frida)) /\ UNCHANGED tk_procs
                       \/ \E p \in SpawnPids \ tk_procs :
                            /\ tk_procs' = tk_procs \cup {p}
                            /\ Done(Ok(<<p>>))
    /\ UNCHANGED <<sessions, scripts, next_session_id, next_script_id, default_script,
                   tk_sessions, heap, now, events, bridgeVars, histVars, job>>

\* FridaContext::resume
ResumeStep ==
    /\ pc = "resume"
    /\ IF validate_no_nul(job.device_id)
       THEN Done(Err(E_NulDeviceId)) /\ UNCHANGED trace
       ELSE IF job.device_id \notin TkDeviceIds
       THEN Done(Err(E_Frida)) /\ trace' = trace \o <<T("get_device_by_id", 0)>>
       ELSE /\ trace' = trace \o <<T("get_device_by_id", 0), T("device.resume", job.pid)>>
            /\ \E resumed \in BOOLEAN : Done(IF resumed THEN Ok(<<>>) ELSE Err(E_Frida))
    /\ UNCHANGED <<ctxVars, tkVars, bridgeVars, histVars, job>>

\* FridaContext::kill
KillStep ==
    /\ pc = "kill"
    /\ IF validate_no_nul(job.device_id)
       THEN Done(Err(E_NulDeviceId)) /\ UNCHANGED <<process_list_cache, trace, tk_procs>>
       ELSE /\ process_list_cache' = Invalidate(process_list_cache)
            /\ IF job.device_id \notin TkDeviceIds
               THEN /\ Done(Err(E_Frida))
                    /\ trace' = trace \o <<T("cache.clear", 0), T("get_device_by_id", 0)>>
                    /\ UNCHANGED tk_procs
               ELSE /\ trace' = trace \o <<T("cache.clear", 0), T("get_device_by_id", 0),
                                            T("device.kill", job.pid)>>
                    /\ \/ Done(Err(E_Frida)) /\ UNCHANGED tk_procs
                       \/ /\ job.pid \in tk_procs
                          /\ tk_procs' = tk_procs \ {job.pid}
                          /\ Done(Ok(<<>>))
    /\ UNCHANGED <<sessions, scripts, next_session_id, next_script_id, default_script,
                   tk_sessions, heap, now, events, bridgeVars, histVars, job>>

\* A second passes. Instant::now() matters only through the age of the cache.
Tick ==
    /\ process_list_cache # <<>>
    /\ now - process_list_cache[1].fetched_at < TTL_SECS
    /\ now' = now + 1
    /\ UNCHANGED <<ctxVars, tk_sessions, heap, tk_procs, events, bridgeVars, actorVars, histVars>>

\* ------------------------------------------------------------ specification
ActorStep ==
    \/ Recv \/ Reply \/ Disconnected \/ Timeout
    \/ AttachBegin \/ AttachLoad \/ AttachFinish
    \/ DetachBegin \/ DetachUnload \/ DetachRemove \/ DetachFailed
    \/ LoadStep \/ UnloadStep \/ PostStep
    \/ PollBegin \/ PollUnload \/ PollRemove \/ PollEnd
    \/ ListStep \/ SpawnStep \/ KillStep

EnvStep ==
    \/ \E handle \in 1..Len(tk_sessions) : ExternalDetach(handle)
    \/ Tick

Next ==
    \/ \E c \in Callers : \E j \in CoreJobs : Submit(c, j)
    \/ \E c \in Callers : Receive(c)
    \/ CloseQueue
    \/ ActorStep
    \/ EnvStep

Spec == Init /\ [][Next]_vars

\* One caller, every kind of input.
InputCaller == CHOOSE c \in Callers : TRUE

\* One caller. The actor is a thread of its own that never blocks for more than
\* the 100 ms of recv_timeout: a step of run() that can be taken is taken.
NextLive ==
    \/ \E j \in CoreJobs : Submit(InputCaller, j)
    \/ Receive(InputCaller)
    \/ CloseQueue
    \/ ActorStep
    \/ EnvStep

SpecLive == Init /\ [][NextLive]_vars /\ WF_vars(ActorStep)

\* Two callers that attach and detach, and an actor thread that may panic. No
\* session detaches by itself here, so a poller run finds nothing to do. The actor
\* thread and a caller blocked in reply_rx.recv() with a reply there are scheduled.
BridgeJobs == {j \in CoreJobs : j.op \in {"attach", "detach"}}
BridgeActorStep ==
    \/ Recv \/ Reply \/ Disconnected \/ Timeout
    \/ AttachBegin \/ AttachLoad \/ AttachFinish
    \/ DetachBegin \/ DetachUnload \/ DetachRemove \/ DetachFailed
NextBridge ==
    \/ \E c \in Callers : \E j \in BridgeJobs : Submit(c, j)
    \/ \E c \in Callers : \E j \in BridgeJobs : SubmitAfterExit(c, j)
    \/ \E c \in Callers : Receive(c)
    \/ CloseQueue
    \/ BridgeActorStep
    \/ Panic

SpecBridge ==
    /\ Init
    /\ [][NextBridge]_vars
    /\ WF_vars(BridgeActorStep)
    /\ \A c \in Callers : WF_vars(Receive(c))

\* Two callers that may stop waiting for a reply, and an actor thread that does
\* not panic.
NextAbandon ==
    \/ \E c \in Callers : \E j \in BridgeJobs : Submit(c, j)
    \/ \E c \in Callers : Receive(c)
    \/ \E c \in Callers : Abandon(c)
    \/ CloseQueue
    \/ BridgeActorStep

SpecAbandon ==
    /\ Init
    /\ [][NextAbandon]_vars
    /\ WF_vars(BridgeActorStep)

\* One caller that attaches, loads, unloads and detaches while the toolkit
\* delivers script messages.
MessageJobs == {j \in CoreJobs : j.op \in {"attach", "load", "unload", "detach"}}
NextMessages ==
    \/ \E j \in MessageJobs : Submit(InputCaller, j)
    \/ Receive(InputCaller)
    \/ CloseQueue
    \/ Recv \/ Reply \/ Disconnected \/ Timeout
    \/ AttachBegin \/ AttachLoad \/ AttachFinish
    \/ DetachBegin \/ DetachUnload \/ DetachRemove \/ DetachFailed
    \/ LoadStep \/ UnloadStep
    \/ \E ptr \in 1..Len(heap) : \E m \in Messages : OnMessage(ptr, m)

SpecMessages == Init /\ [][NextMessages]_vars

\* The actor after so many allocations that both counters are one below u64::MAX,
\* with no session registered; one caller, whose id arguments are the ids the
\* actor hands out there.
SaturateIds == {U64_MAX - 1, U64_MAX}
SaturateJobs ==
    {j \in CoreJobs : j.id = 0}
    \cup {Job(op, <<>>, 0, i, <<>>, <<>>, <<>>) : op \in {"detach", "load", "unload"}, i \in SaturateIds}
    \cup {Job("post", <<>>, 0, i, STR_ping, <<>>, <<>>) : i \in SaturateIds}
InitSaturate == InitWith(U64_MAX - 1)
NextSaturate ==
    \/ \E j \in SaturateJobs : Submit(InputCaller, j)
    \/ Receive(InputCaller)
    \/ CloseQueue
    \/ ActorStep
    \/ EnvStep

SpecSaturate == InitSaturate /\ [][NextSaturate]_vars

NextInput ==
    \/ \E j \in InputJobs : Submit(InputCaller, j)
    \/ Receive(InputCaller)
    \/ CloseQueue
    \/ ActorStep
    \/ ResumeStep
    \/ EnvStep

SpecInput == Init /\ [][NextInput]_vars

\* ================================================================ claims
AtReply(op) == pc = "reply" /\ job.op = op
TraceCalls == {trace[i].call : i \in 1..Len(trace)}
NoToolkitCall == TraceCalls \cap TkCalls = {}
InProgress == Range(exec_order) \ finished
DetachedEvents(session_id) ==
    {i \in 1..Len(events) : events[i].name = "frida_session_detached"
                            /\ events[i].session_id = session_id}
AttachedEvents(session_id) ==
    {i \in 1..Len(events) : events[i].name = "frida_session_attached"
                            /\ events[i].session_id = session_id}
ScriptsOf(session_id) == {i \in DOMAIN scripts : scripts[i].session_id = session_id}

\* C1: in every reachable state (between operations and inside them, failure
\* paths included) every id in a registered session's script_ids is a registered
\* script that points back to that session, and every registered script's
\* session_id is a registered session whose script_ids holds the script's id
\* exactly once.
C1_RegistryConsistent ==
    /\ \A session_id \in DOMAIN sessions :
         \A i \in 1..Len(sessions[session_id].script_ids) :
            LET script_id == sessions[session_id].script_ids[i]
            IN  script_id \in DOMAIN scripts /\ scripts[script_id].session_id = session_id
    /\ \A script_id \in DOMAIN scripts :
         /\ scripts[script_id].session_id \in DOMAIN sessions
         /\ Count(sessions[scripts[script_id].session_id].script_ids, script_id) = 1

\* A load_default_script job has failed in the toolkit on a session that keeps
\* an earlier script.
C1_Witness ==
    /\ AtReply("load")
    /\ locals.result.err = E_Frida
    /\ job.id \in DOMAIN sessions
    /\ sessions[job.id].script_ids # <<>>

\* C2: the actor runs at most one job or poller run at a time: at most one
\* accepted job is started and not finished, it is the one the actor holds, and no
\* job is unfinished while the poller runs.
C2_OneAtATime ==
    /\ Cardinality(InProgress) <= 1
    /\ InProgress # {} => job.seq \in InProgress /\ pc \notin {"idle", "exited"}
    /\ job.op = "poll" => InProgress = {}
    /\ pc = "idle" => InProgress = {} /\ job = NoJob

\* A second caller's job waits in the queue while attach is between its steps.
C2_Witness ==
    /\ pc = "attach_load"
    /\ queue # <<>>
    /\ queue[1].caller # job.caller

\* C3: jobs start in the order they were accepted (seq is the acceptance order),
\* and each has finished before the next starts.
C3_Fifo ==
    \A i \in 1..Len(exec_order) :
        /\ exec_order[i] = i
        /\ i < Len(exec_order) => i \in finished

\* Two jobs of different callers were queued together and the second has started.
C3_Witness ==
    /\ Len(exec_order) = 2
    /\ job.seq = 2
    /\ last.job.seq = 1
    /\ last.job.caller # job.caller
    /\ callers[last.job.caller].seq = 1

\* C4: when attach fails because load_default_script failed, at its return the
\* session it created is not registered, no script is registered for it, no
\* frida_session_attached event names it and the load's error is the result; and
\* while the session is half-attached the attach job is the only one in progress.
C4_AttachRollback ==
    /\ (AtReply("attach") /\ locals.session_id # 0 /\ ~locals.load_result.ok) =>
          /\ locals.session_id \notin DOMAIN sessions
          /\ ScriptsOf(locals.session_id) = {}
          /\ AttachedEvents(locals.session_id) = {}
          /\ locals.result.ok = FALSE
          /\ locals.result.err = locals.load_result.err
          /\ locals.result.err # "none"
    /\ pc \in {"attach_load", "attach_finish"} =>
          /\ job.op = "attach"
          /\ InProgress = {job.seq}

\* The toolkit failed the script load of a second attach; the first session stays.
C4_Witness ==
    /\ AtReply("attach")
    /\ locals.session_id # 0
    /\ locals.load_result.err = E_Frida
    /\ DOMAIN sessions # {}

\* C5: detach of a session id that is not registered returns "Unknown session_id"
\* and leaves sessions, scripts, both counters and the process cache as they were,
\* with no toolkit call and no event.
C5_DetachUnknown ==
    (AtReply("detach") /\ job.id \notin DOMAIN pre.sessions) =>
        /\ locals.result.ok = FALSE
        /\ locals.result.err = E_UnknownSession
        /\ sessions = pre.sessions
        /\ scripts = pre.scripts
        /\ next_session_id = pre.next_session_id
        /\ next_script_id = pre.next_script_id
        /\ process_list_cache = pre.process_list_cache
        /\ NoToolkitCall
        /\ "emit" \notin TraceCalls
        /\ Len(events) = pre.n_events

\* detach of an unknown id while another session is registered and the cache is filled.
C5_Witness ==
    /\ AtReply("detach")
    /\ job.id \notin DOMAIN pre.sessions
    /\ DOMAIN sessions # {}
    /\ process_list_cache # <<>>

\* The case of C6: the job before this detach was a successful attach that started
\* from an empty registry, and the detach names the session it returned.
C6_Case ==
    /\ AtReply("detach")
    /\ last.job.op = "attach"
    /\ last.result.ok
    /\ last.pre.sessions = EmptyMap
    /\ last.pre.scripts = EmptyMap
    /\ job.id = last.result.val[1]

\* C6 as claimed: attach then detach leaves no session and no script, and the
\* process cache as it was before the attach.
C6_Original ==
    C6_Case =>
        /\ sessions = EmptyMap
        /\ scripts = EmptyMap
        /\ process_list_cache = last.pre.process_list_cache

\* C6 amended: attach then detach leaves no script and the process cache as it
\* was before the attach, and leaves no session unless the detach returns the
\* toolkit's detach error: then the session stays registered, with no script.
C6_AttachDetach ==
    C6_Case =>
        /\ scripts = EmptyMap
        /\ process_list_cache = last.pre.process_list_cache
        /\ \/ sessions = EmptyMap
           \/ /\ locals.result.err = E_Frida
              /\ DOMAIN sessions = {job.id}
              /\ sessions[job.id].script_ids = <<>>

\* A successful detach right after the attach, with a filled process cache.
C6_Witness ==
    /\ C6_Case
    /\ locals.result.ok
    /\ process_list_cache # <<>>

\* The toolkit's detach failed in the running detach job, and is_detached, asked
\* next, answered `call`.
DetachFailedWith(call) ==
    \E k \in 1..(Len(trace) - 1) :
        /\ trace[k] = T("session.detach:err", job.id)
        /\ trace[k + 1] = T(call, job.id)

\* C7: script_post reaches the toolkit only for a registered script whose session
\* is registered and answered not detached; it fails with an unknown-handle error
\* and without a toolkit call when the script or its session is not registered,
\* fails without posting when the session answers detached, and fails with
\* "Unknown script_id" for every script of a session that has been detached.
C7_ScriptPost ==
    AtReply("post") =>
        LET known == job.id \in DOMAIN pre.scripts
            posted == T("script.post", job.id) \in Range(trace)
        IN  /\ ~known => /\ locals.result.err \in UnknownHandleErrors
                         /\ NoToolkitCall
            /\ known =>
                 LET session_id == pre.scripts[job.id].session_id
                 IN  /\ session_id \notin DOMAIN pre.sessions =>
                           locals.result.err \in UnknownHandleErrors /\ NoToolkitCall
                     /\ posted => /\ session_id \in DOMAIN pre.sessions
                                  /\ T("is_detached:false", session_id) \in Range(trace)
                     /\ T("is_detached:true", session_id) \in Range(trace) =>
                           ~locals.result.ok /\ ~posted
            /\ ~known => ~posted
            /\ (\E p \in 1..Len(heap) : heap[p].script_id = job.id
                                         /\ DetachedEvents(heap[p].session_id) # {}) =>
                  /\ locals.result.err = E_UnknownScript
                  /\ NoToolkitCall

\* script_post on the script of a session that a detach job has removed.
C7_Witness ==
    /\ AtReply("post")
    /\ \E p \in 1..Len(heap) :
         /\ heap[p].script_id = job.id
         /\ \E i \in DetachedEvents(heap[p].session_id) : events[i].reason = "user"

\* C9: when the toolkit's detach fails in detach(session_id) and the handle
\* reports detached, detach returns success, the session and its scripts are
\* unregistered and the one frida_session_detached event of that session has
\* reason disposed; no session ever gets a second frida_session_detached event.
C9_AlreadyDetached ==
    /\ \A i, j \in 1..Len(events) :
          (/\ events[i].name = "frida_session_detached"
           /\ events[j].name = "frida_session_detached"
           /\ events[i].session_id = events[j].session_id) => i = j
    /\ (AtReply("detach") /\ DetachFailedWith("is_detached:true")) =>
          /\ locals.result.ok
          /\ job.id \notin DOMAIN sessions
          /\ ScriptsOf(job.id) = {}
          /\ \A script_id \in Range(pre.sessions[job.id].script_ids) : script_id \notin DOMAIN scripts
          /\ Cardinality(DetachedEvents(job.id)) = 1
          /\ \A i \in DetachedEvents(job.id) : events[i].reason = "disposed"

\* Such a detach, of a session that had a script.
C9_Witness ==
    /\ AtReply("detach")
    /\ DetachFailedWith("is_detached:true")
    /\ pre.sessions[job.id].script_ids # <<>>

\* C10: when the toolkit's detach fails in detach(session_id) and the handle does
\* not report detached, at the return the session id is registered again with the
\* record it had (handle, device, pid), the toolkit's error is the result, and the
\* call has emitted no event.
C10_DetachFailureReinserts ==
    (AtReply("detach") /\ DetachFailedWith("is_detached:false")) =>
        /\ job.id \in DOMAIN sessions
        /\ sessions[job.id].session = pre.sessions[job.id].session
        /\ sessions[job.id].device_id = pre.sessions[job.id].device_id
        /\ sessions[job.id].pid = pre.sessions[job.id].pid
        /\ locals.result.ok = FALSE
        /\ locals.result.err = E_Frida
        /\ "emit" \notin TraceCalls
        /\ DetachedEvents(job.id) = {}

\* Such a detach, of a session that had a script.
C10_Witness ==
    /\ AtReply("detach")
    /\ DetachFailedWith("is_detached:false")
    /\ pre.sessions[job.id].script_ids # <<>>

\* The running job has a string input that holds a NUL byte.
NulInput ==
    \/ job.op \in {"list", "attach", "spawn", "resume", "kill"} /\ Contains(job.device_id, NUL)
    \/ job.op = "spawn" /\ Contains(job.program, NUL)
    \/ job.op = "spawn" /\ \E i \in 1..Len(job.argv) : \E k \in 1..Len(job.argv[i]) :
                               Contains(job.argv[i][k], NUL)
    \/ job.op = "post" /\ Contains(job.message, NUL)

\* C8 as claimed: an operation given a string input that holds a NUL byte returns
\* an input-validation error and has made no toolkit call.
C8_NulRejected ==
    (pc = "reply" /\ NulInput) =>
        /\ locals.result.ok = FALSE
        /\ locals.result.err \in InputValidationErrors
        /\ NoToolkitCall

\* Positions of an entry in the trace of the running job.
TracePos(call, id) == {k \in 1..Len(trace) : trace[k] = T(call, id)}
DetachRequests(session_id) ==
    TracePos("session.detach:ok", session_id) \cup TracePos("session.detach:err", session_id)
FailedUnloads == {k \in 1..Len(trace) : trace[k].call = "script.unload:err"}

\* The trace entries a teardown of session_id makes before its event.
TeardownEntries(session_id) ==
    {T(call, session_id) : call \in {"sessions.remove", "sessions.insert", "session.detach:ok",
                                      "session.detach:err", "is_detached:true", "is_detached:false"}}
    \cup {T(call, script_id) : call \in {"scripts.remove", "script.unload:ok", "script.unload:err"},
                               script_id \in Range(pre.sessions[session_id].script_ids)}

\* The teardown of session_id by the running detach job or poller run is complete.
TornDown(session_id) ==
    \/ AtReply("detach") /\ job.id = session_id /\ session_id \in DOMAIN pre.sessions
    \/ pc = "poll" /\ session_id \in locals.reported \ locals.detached_ids

\* C11: in a detach job and in a poller run, every script the session had is
\* removed from the script registry before the session is removed from the session
\* registry, the removal of the session precedes the toolkit's detach request, and
\* the frida_session_detached event comes after all of them as the last step of
\* the teardown; and once the teardown is complete the session and all its
\* scripts have been removed whatever the script unloads returned.
C11_TeardownOrder ==
    job.op \in {"detach", "poll"} =>
        /\ \A session_id \in DOMAIN pre.sessions :
              /\ \A k \in TracePos("sessions.remove", session_id) :
                    \A script_id \in Range(pre.sessions[session_id].script_ids) :
                        /\ \E j \in TracePos("scripts.remove", script_id) : j < k
                        /\ \A j \in TracePos("scripts.remove", script_id) : j < k
              /\ \A k \in DetachRequests(session_id) :
                    \E j \in TracePos("sessions.remove", session_id) : j < k
              /\ \A k \in TracePos("emit", session_id) :
                    /\ \E j \in TracePos("sessions.remove", session_id) : j < k
                    /\ \A j \in DetachRequests(session_id) : j < k
                    /\ \A j \in (k + 1)..Len(trace) : trace[j] \notin TeardownEntries(session_id)
                    /\ job.op = "detach" => k = Len(trace)
                    /\ job.op = "poll" => trace[k - 1] = T("sessions.remove", session_id)
              /\ TornDown(session_id) =>
                    /\ TracePos("sessions.remove", session_id) # {}
                    /\ \A script_id \in Range(pre.sessions[session_id].script_ids) :
                          script_id \notin DOMAIN scripts
                    /\ pc = "poll" => session_id \notin DOMAIN sessions

\* A detach job is complete in which the first of two script unloads failed.
C11_Witness ==
    /\ AtReply("detach")
    /\ job.id \in DOMAIN pre.sessions
    /\ Len(pre.sessions[job.id].script_ids) = 2
    /\ \E k \in FailedUnloads : trace[k].id = pre.sessions[job.id].script_ids[1]
    /\ TracePos("emit", job.id) # {}

\* The poller run that started from `pre` has ended.
PollDone == pc = "poll" /\ locals.detached_ids = {}
NewEvents == SubSeq(events, pre.n_events + 1, Len(events))

\* C12: at the end of a poller run the sessions it took for detached are those
\* whose handle reports detached; each of them and each of their scripts is
\* unregistered and the run has emitted exactly one frida_session_detached event
\* with reason disposed for each of them and no other event; every other session
\* and script is as it was before the run, and so are both id counters and the
\* process cache.
C12_PollerRun ==
    PollDone =>
        /\ locals.reported \subseteq DOMAIN pre.sessions
        /\ \A session_id \in locals.reported : tk_sessions[pre.sessions[session_id].session]
        /\ DOMAIN sessions = (DOMAIN pre.sessions) \ locals.reported
        /\ \A session_id \in DOMAIN sessions : sessions[session_id] = pre.sessions[session_id]
        /\ DOMAIN scripts = {script_id \in DOMAIN pre.scripts :
                                pre.scripts[script_id].session_id \notin locals.reported}
        /\ \A script_id \in DOMAIN scripts : scripts[script_id] = pre.scripts[script_id]
        /\ Len(NewEvents) = Cardinality(locals.reported)
        /\ \A session_id \in locals.reported :
              \E i \in 1..Len(NewEvents) :
                  NewEvents[i] = Event("frida_session_detached", session_id, 0, "disposed")
        /\ next_session_id = pre.next_session_id
        /\ next_script_id = pre.next_script_id
        /\ process_list_cache = pre.process_list_cache

\* A poller run has removed a detached session that had a script and has left an
\* attached session with its script.
C12_Witness ==
    /\ PollDone
    /\ \E session_id \in locals.reported : pre.sessions[session_id].script_ids # <<>>
    /\ \E session_id \in DOMAIN sessions : sessions[session_id].script_ids # <<>>

\* Ids attach can have handed out.
SessionIds == 1..MaxJobs
\* Callers have made their last request, the queue is drained and the actor idles
\* in recv_timeout.
Quiescent == accepted = MaxJobs /\ queue = <<>> /\ pc = "idle"
DetachedExternally(session_id) ==
    /\ session_id \in DOMAIN sessions
    /\ is_detached(sessions[session_id])
\* The session and its scripts are unregistered and the disposed event of the
\* session has been emitted.
Disposed(session_id) ==
    /\ session_id \notin DOMAIN sessions
    /\ ScriptsOf(session_id) = {}
    /\ \E i \in DetachedEvents(session_id) : events[i].reason = "disposed"

\* C13: when the handle of a registered session is detached and callers submit no
\* more jobs, then, unless the queue is closed, eventually the session and all its
\* scripts are unregistered and frida_session_detached with reason disposed has
\* been emitted for it, by the poller alone.
C13_PollerLiveness ==
    \A session_id \in SessionIds :
        (Quiescent /\ DetachedExternally(session_id)) ~> (Disposed(session_id) \/ ~tx_open)

\* The poller has disposed of a session with a script after the last job was done.
C13_Witness ==
    /\ PollDone
    /\ accepted = MaxJobs
    /\ finished = 1..MaxJobs
    /\ \E session_id \in locals.reported :
          /\ Disposed(session_id)
          /\ pre.sessions[session_id].script_ids # <<>>

\* The session ids a step removes from the session registry.
SessionsRemoved == (DOMAIN sessions) \ (DOMAIN sessions')

\* C14 as claimed: only a step of a detach job or of the poller removes an entry
\* from the session registry.
C14_Original == [][SessionsRemoved # {} => job.op \in {"detach", "poll"}]_vars

\* C14 amended: a step that removes an entry from the session registry is a step
\* of a detach job or of the poller, or it is the rollback of an attach whose
\* script load failed, which removes only the session that attach inserted.
C14_SessionRemoval ==
    [][SessionsRemoved # {} =>
          \/ job.op \in {"detach", "poll"}
          \/ /\ job.op = "attach"
             /\ ~locals.load_result.ok
             /\ SessionsRemoved = {locals.session_id}
             /\ locals.session_id \notin DOMAIN pre.sessions]_vars

\* An attach has rolled its session back and the sessions registered before it
\* are all still registered.
C14_Witness ==
    /\ AtReply("attach")
    /\ T("sessions.remove", locals.session_id) \in Range(trace)
    /\ locals.session_id \notin DOMAIN sessions
    /\ DOMAIN sessions = DOMAIN pre.sessions
    /\ DOMAIN sessions # {}

AssetErrors == {E_AgentNotUtf8, E_AgentMissing, E_AgentEmpty, E_NulDefaultScript}

\* The load_default_script job that replies was given a session id that was not
\* registered, or one whose handle reported detached.
LoadOnUnknown == AtReply("load") /\ job.id \notin DOMAIN pre.sessions
LoadOnDetached ==
    /\ AtReply("load")
    /\ job.id \in DOMAIN pre.sessions
    /\ job.id \in pre.detached \/ T("is_detached:true", job.id) \in Range(trace)

FirstPos(call) ==
    IF call \in TraceCalls THEN CHOOSE k \in 1..Len(trace) :
                                    trace[k].call = call /\ \A j \in 1..(k - 1) : trace[j].call # call
    ELSE 0

\* C16: at the return of a load_default_script job at most one script handle has
\* been created. On success the toolkit's create_script, handle_message and
\* script.load came, in this order, before the insertion into the script registry,
\* the script is registered for the session, its id is the last of the session's
\* script_ids and its handle is live. On failure the error is returned, the
\* session and script registries are as before the call, and a handle that was
\* created has been released exactly once.
C16_LoadAtomic ==
    AtReply("load") =>
        LET created == Len(heap) > pre.n_heap
        IN  /\ Len(heap) <= pre.n_heap + 1
            /\ created <=> "handle_message" \in TraceCalls
            /\ locals.result.ok =>
                  LET script_id == locals.result.val[1]
                  IN  /\ 0 < FirstPos("create_script")
                      /\ FirstPos("create_script") < FirstPos("handle_message")
                      /\ FirstPos("handle_message") < FirstPos("script.load")
                      /\ FirstPos("script.load") < FirstPos("scripts.insert")
                      /\ script_id \notin DOMAIN pre.scripts
                      /\ script_id \in DOMAIN scripts
                      /\ scripts[script_id] = [session_id |-> job.id, script |-> Len(heap)]
                      /\ sessions[job.id].script_ids = Append(pre.sessions[job.id].script_ids, script_id)
                      /\ created
                      /\ heap[Len(heap)].freed = 0
            /\ ~locals.result.ok =>
                  /\ locals.result.err # "none"
                  /\ sessions = pre.sessions
                  /\ scripts = pre.scripts
                  /\ "scripts.insert" \notin TraceCalls
                  /\ created => /\ heap[Len(heap)].freed = 1
                                 /\ Cardinality(TracePos("free", Len(heap))) = 1
                  /\ \A ptr \in 1..pre.n_heap : TracePos("free", ptr) = {}

\* The toolkit failed script.load in a load_default_script job on a session that
\* has a script.
C16_Witness ==
    /\ AtReply("load")
    /\ ~locals.result.ok
    /\ "script.load" \in TraceCalls
    /\ job.id \in DOMAIN sessions
    /\ sessions[job.id].script_ids # <<>>

UnloadRequested(script_id) ==
    TracePos("script.unload:ok", script_id) \cup TracePos("script.unload:err", script_id) # {}

\* C17: unload_script of a script id that is not registered returns "Unknown
\* script_id", makes no toolkit call and changes neither registry nor any handle.
\* Of a registered one: at the return the script is not registered, its id is not
\* in the script_ids of its session (which is otherwise as before), and its handle
\* has been reclaimed exactly once; the toolkit's unload was requested if and only
\* if the session is registered and answered not detached; the result is the
\* toolkit's when it was requested and success when it was skipped. No handle is
\* ever reclaimed twice and the handle of a registered script is live.
C17_Unload ==
    /\ \A ptr \in 1..Len(heap) : heap[ptr].freed <= 1
    /\ \A script_id \in DOMAIN scripts : heap[scripts[script_id].script].freed = 0
    /\ (AtReply("unload") /\ job.id \notin DOMAIN pre.scripts) =>
          /\ locals.result.ok = FALSE
          /\ locals.result.err = E_UnknownScript
          /\ trace = <<>>
          /\ sessions = pre.sessions
          /\ scripts = pre.scripts
    /\ (AtReply("unload") /\ job.id \in DOMAIN pre.scripts) =>
          LET record == pre.scripts[job.id]
              session_id == record.session_id
              registered == session_id \in DOMAIN pre.sessions
          IN  /\ scripts = MapRemove(pre.scripts, job.id)
              /\ DOMAIN sessions = DOMAIN pre.sessions
              /\ \A id \in DOMAIN sessions :
                    sessions[id] = IF id = session_id
                                   THEN [pre.sessions[id] EXCEPT !.script_ids = Retain(@, job.id)]
                                   ELSE pre.sessions[id]
              /\ registered => job.id \notin Range(sessions[session_id].script_ids)
              /\ heap[record.script].freed = 1
              /\ Cardinality(TracePos("free", record.script)) = 1
              /\ UnloadRequested(job.id) <=>
                    (registered /\ T("is_detached:false", session_id) \in Range(trace))
              /\ (registered /\ session_id \in pre.detached) => ~UnloadRequested(job.id)
              /\ ~UnloadRequested(job.id) => locals.result.ok
              /\ locals.result.ok <=> TracePos("script.unload:err", job.id) = {}

\* unload_script of a script whose session answered detached: the unload is skipped.
C17_Witness ==
    /\ AtReply("unload")
    /\ job.id \in DOMAIN pre.scripts
    /\ T("is_detached:true", pre.scripts[job.id].session_id) \in Range(trace)
    /\ locals.result.ok

\* C18 as claimed: an id is strictly below its counter once it has been allocated;
\* the first successful attach of a fresh actor returns session_id 1 and script_id
\* 1; no two successful attaches return the same session_id or the same script_id;
\* and no two scripts the toolkit created, registered or not, got the same
\* script_id.
C18_FreshIds ==
    /\ \A i, j \in 1..Len(events) :
          (/\ i # j
           /\ events[i].name = "frida_session_attached"
           /\ events[j].name = "frida_session_attached") =>
              /\ events[i].session_id # events[j].session_id
              /\ events[i].script_id # events[j].script_id
    /\ \A p, q \in 1..Len(heap) : p # q => heap[p].script_id # heap[q].script_id
    /\ \A id \in DOMAIN sessions : id < next_session_id
    /\ \A id \in DOMAIN scripts : id < next_script_id
    /\ (AtReply("attach") /\ locals.result.ok) =>
          /\ locals.result.val[1] >= pre.next_session_id
          /\ locals.result.val[2] >= pre.next_script_id
          /\ (pre.next_session_id = 1 /\ pre.next_script_id = 1) => locals.result.val = <<1, 1>>

\* A list_processes job replies whose device_id passed validation (no NUL byte,
\* not the unsupported socket device).
ListValid == AtReply("list") /\ ~Contains(job.device_id, NUL) /\ job.device_id # STR_socket
\* The cache held this device when the job started, and the age read at the call.
ListCached == pre.process_list_cache # <<>> /\ pre.process_list_cache[1].device_id = job.device_id
ListAges == {trace[k].id : k \in {i \in 1..Len(trace) : trace[i].call = "elapsed"}}
ListFresh == ListCached /\ \E age \in ListAges : age < TTL_SECS
ListEnumerated == "enumerate_processes" \in TraceCalls

C19_OtherDevice ==
    /\ ListValid
    /\ pre.process_list_cache # <<>>
    /\ ~ListCached
    /\ ListEnumerated

\* A spawn or kill job whose inputs pass validation, so that it calls the toolkit.
ReachesToolkit(j) ==
    \/ /\ j.op = "spawn"
       /\ ~Contains(j.device_id, NUL)
       /\ ~Contains(j.program, NUL)
       /\ \A i \in 1..Len(j.argv) : \A k \in 1..Len(j.argv[i]) : ~Contains(j.argv[i][k], NUL)
    \/ j.op = "kill" /\ ~Contains(j.device_id, NUL)

\* C20: a spawn or kill job calls the toolkit exactly when its inputs pass
\* validation, and at its return, whether the toolkit call succeeded or failed, the
\* process cache is empty; the list_processes job that comes next, for any valid
\* device, starts from an empty cache, goes to the toolkit and returns, when it
\* succeeds, a list enumerated afresh and not one cached before the spawn or kill.
C20_SpawnKillInvalidate ==
    /\ (pc = "reply" /\ job.op \in {"spawn", "kill"}) =>
          /\ ReachesToolkit(job) <=> ~NoToolkitCall
          /\ ReachesToolkit(job) => process_list_cache = <<>>
    /\ (ListValid /\ ReachesToolkit(last.job)) =>
          /\ pre.process_list_cache = <<>>
          /\ ListAges = {}
          /\ "get_device_by_id" \in TraceCalls
          /\ locals.result.ok => /\ ListEnumerated
                                  /\ locals.result.val = ProcessInfos(tk_procs)

\* list_processes right after a spawn that failed in the toolkit, for the device
\* the cache held before that spawn.
C20_Witness ==
    /\ ListValid
    /\ last.job.op = "spawn"
    /\ ReachesToolkit(last.job)
    /\ last.result = Err(E_Frida)
    /\ last.pre.process_list_cache # <<>>
    /\ last.pre.process_list_cache[1].device_id = job.device_id
    /\ ListEnumerated

\* ------------------------------------------------- the bridge (C21..C23)
Waiting(c, q) == callers[c].st = "waiting" /\ callers[c].seq = q
JobSeqs == 1..MaxJobs

\* One step of the reply channels while the actor thread lives: a reply appears
\* only at the end of a job's closure, in that job's own channel, once; a reply in
\* a channel never changes; a reply leaves its channel only by the one caller that
\* waits on that channel taking it, and a caller takes nothing from another channel.
RoutingStep ==
    (ActorAlive /\ ActorAlive') =>
        /\ \A q \in DOMAIN replies' \ DOMAIN replies :
              /\ pc = "reply" /\ q = job.seq
              /\ q \notin finished /\ finished' = finished \cup {q}
              /\ replies'[q] = locals.result
              /\ \A c \in Callers : Waiting(c, q) => c = job.caller
        /\ \A q \in DOMAIN replies \cap DOMAIN replies' : replies'[q] = replies[q]
        /\ \A q \in DOMAIN replies \ DOMAIN replies' :
              \E c \in Callers :
                  /\ Waiting(c, q) /\ callers'[c].st = "idle"
                  /\ \A d \in Callers \ {c} : callers'[d] = callers[d]
        /\ \A c, d \in Callers : (c # d /\ callers[c].st = "waiting" /\ callers[d].st = "waiting")
                                      => callers[c].seq # callers[d].seq

\* C21: while the actor thread lives, every job accepted into the queue produces
\* exactly one reply, put in the channel of the caller that submitted it and taken
\* only by that caller; every accepted job is eventually finished and every waiting
\* caller eventually stops waiting.
C21_ReplyRouting ==
    /\ [][RoutingStep]_vars
    /\ \A q \in JobSeqs : (accepted >= q) ~> (q \in finished \/ pc = "dead")
    /\ \A c \in Callers : (callers[c].st = "waiting") ~> (callers[c].st = "idle")

\* Both callers wait, and the reply of the one that submitted first is in its
\* channel while the other still waits for its own.
C21_Witness ==
    \E c, d \in Callers :
        /\ ActorAlive
        /\ callers[c].st = "waiting" /\ callers[d].st = "waiting"
        /\ callers[c].seq \in DOMAIN replies
        /\ callers[d].seq \notin DOMAIN replies
        /\ callers[d].seq \in Range(exec_order)

\* What caller c is returned when it takes what is in its channel.
Returned(c) == RequestResult(replies[callers[c].seq])
WorkerUnavailable(r) == ~r.ok /\ r.err \in WorkerUnavailableErrors

\* C22: once the actor thread is dead no caller blocks: whatever a caller waits on
\* is already decided, a request made after the death included, and every waiting
\* caller eventually returns. A caller is returned WorkerUnavailable exactly when
\* its job's closure did not run to completion; a job that completed returns the
\* operation's own result, which is never WorkerUnavailable.
C22_WorkerUnavailable ==
    /\ [](pc = "dead" => \A c \in Callers :
              callers[c].st = "waiting" => callers[c].seq \in DOMAIN replies)
    /\ [](\A c \in Callers :
              (callers[c].st = "waiting" /\ callers[c].seq \in DOMAIN replies) =>
                  /\ WorkerUnavailable(Returned(c)) <=> callers[c].seq \notin finished
                  /\ callers[c].seq \notin finished => pc = "dead"
                  /\ callers[c].seq \in finished => Returned(c) = replies[callers[c].seq])
    /\ \A c \in Callers :
          (pc = "dead" /\ callers[c].st = "waiting") ~> (callers[c].st = "idle")

\* The actor thread died in the second job after completing the first: one caller
\* waits on the job that was running, the other made its request afterwards.
C22_Witness ==
    /\ pc = "dead"
    /\ finished # {}
    /\ \E c, d \in Callers :
          /\ callers[c].st = "waiting" /\ callers[d].st = "waiting"
          /\ replies[callers[c].seq] = Dropped
          /\ replies[callers[d].seq] = SendFailed
          /\ Returned(c) = Err(E_WorkerNoResponse)
          /\ Returned(d) = Err(E_WorkerClosed)

\* The registry effect of the job that has just completed is in place.
EffectInPlace ==
    /\ (job.op = "attach" /\ locals.result.ok) =>
           /\ locals.result.val[1] \in DOMAIN sessions
           /\ locals.result.val[2] \in DOMAIN scripts
    /\ (job.op = "detach" /\ locals.result.ok) => job.id \notin DOMAIN sessions

\* C23: a job accepted into the queue is eventually executed to completion, with
\* its registry effect, whether or not its caller still waits; the actor loop ends
\* only when the queue is closed, and then every job accepted before the closure
\* has been executed.
C23_NoCancellation ==
    /\ \A q \in JobSeqs : (accepted >= q) ~> (q \in finished)
    /\ [](pc = "reply" => EffectInPlace)
    /\ [](pc = "exited" => /\ ~tx_open
                            /\ queue = <<>>
                            /\ finished = 1..accepted)
    /\ [][pc' = "exited" => (pc = "exited" \/ (pc = "idle" /\ ~tx_open /\ queue = <<>>))]_vars

\* The queue is closed with jobs still in it; an attach whose caller stopped
\* waiting completes, and another job is still queued behind it.
C23_Witness ==
    /\ ~tx_open
    /\ pc = "reply"
    /\ job.op = "attach" /\ locals.result.ok
    /\ callers[job.caller].st = "idle"
    /\ job.seq \notin DOMAIN replies
    /\ queue # <<>>

\* ------------------------------------------------- script messages (C24)
IsScriptMessage(e) == e.name = "frida_script_message"
ScriptMessages == SelectSeq(events, IsScriptMessage)
RECURSIVE MessagesOf(_, _)
MessagesOf(evs, script_id) ==
    IF evs = <<>> THEN <<>>
    ELSE IF IsScriptMessage(Head(evs)) /\ Head(evs).script_id = script_id
         THEN <<Head(evs)>> \o MessagesOf(Tail(evs), script_id)
         ELSE MessagesOf(Tail(evs), script_id)

\* C24: the script_message events of a script are, one for one and in the same
\* order, the callbacks the toolkit delivered to that script's handler; there is
\* no other script_message event; and each carries the script id the handler was
\* given in load_default_script with the session id that script was loaded on.
C24_MessageTranslation ==
    /\ \A ptr \in 1..Len(heap) :
          LET box == heap[ptr]
              got == MessagesOf(events, box.script_id)
          IN  /\ Len(got) = Len(box.delivered)
              /\ \A i \in 1..Len(got) :
                    /\ got[i].session_id = box.session_id
                    /\ got[i].message.payload = box.delivered[i].payload
                    /\ got[i].data = box.delivered[i].data
                    /\ <<box.delivered[i].kind, got[i].message.type>> \in
                          {<<"Send", "send">>, <<"Log", "log">>, <<"Error", "error">>,
                           <<"Other", "other">>}
              /\ box.script_id \in DOMAIN scripts =>
                    /\ scripts[box.script_id].script = ptr
                    /\ scripts[box.script_id].session_id = box.session_id
    /\ Len(ScriptMessages) = Callbacks(heap)
    /\ \A i \in 1..Len(ScriptMessages) :
          \E ptr \in 1..Len(heap) : heap[ptr].script_id = ScriptMessages[i].script_id

\* A script delivered a message of the Other kind and then a Send, both were
\* forwarded, and the script has since been unloaded.
C24_Witness ==
    \E ptr \in 1..Len(heap) :
        /\ Len(heap[ptr].delivered) = 2
        /\ heap[ptr].delivered[1].kind = "Other"
        /\ heap[ptr].delivered[2].kind = "Send"
        /\ heap[ptr].freed = 1
        /\ Len(MessagesOf(events, heap[ptr].script_id)) = 2
        /\ Len(events) > 2

\* ------------------------------------------------- event order (C25)
\* C25: for every session id, at most one frida_session_attached event and at most
\* one frida_session_detached event are ever emitted, and a detached event comes
\* only after the attached event of the same id (counters below u64::MAX).
C25_EventOrder ==
    \A session_id \in SessionIds :
        /\ Cardinality(AttachedEvents(session_id)) <= 1
        /\ Cardinality(DetachedEvents(session_id)) <= 1
        /\ \A d \in DetachedEvents(session_id) :
              \E a \in AttachedEvents(session_id) : a < d

\* One session's attach was rolled back and another was attached and then removed
\* by the poller: the events are the attached and the detached of the second.
C25_Witness ==
    \E rolled, polled \in SessionIds :
        /\ rolled < next_session_id /\ polled < next_session_id
        /\ rolled \notin DOMAIN sessions /\ polled \notin DOMAIN sessions
        /\ AttachedEvents(rolled) = {} /\ DetachedEvents(rolled) = {}
        /\ AttachedEvents(polled) # {}
        /\ \E d \in DetachedEvents(polled) : events[d].reason = "disposed"

\* ------------------------------------------------- error frame (C26)
\* The registries, both counters and the process cache are as before the job.
FrameKept ==
    /\ sessions = pre.sessions
    /\ scripts = pre.scripts
    /\ next_session_id = pre.next_session_id
    /\ next_script_id = pre.next_script_id
    /\ process_list_cache = pre.process_list_cache
RejectedWith(errors) == pc = "reply" /\ ~locals.result.ok /\ locals.result.err \in errors

\* C26: a job that returns an InputValidation error (a NUL byte in device_id,
\* program, an argv element or the message) or an UnknownHandle error leaves the
\* session registry, the script registry, both id counters and the process cache
\* as they were before the job.
C26_ErrorFrame ==
    RejectedWith({E_NulDeviceId, E_NulProgram, E_NulArgv, E_NulMessage} \cup UnknownHandleErrors)
        => FrameKept

\* Every such error but the NUL byte in an argv element does leave them unchanged.
C26_ExceptArgv ==
    RejectedWith({E_NulDeviceId, E_NulProgram, E_NulMessage} \cup UnknownHandleErrors)
        => FrameKept

\* ------------------------------------------------- failed detach (C27)
\* The job that finished just before the running one was a detach that failed in
\* the toolkit, of a session that owned script_id.
AfterFailedDetachOf(script_id) ==
    /\ last.job.op = "detach"
    /\ last.result = Err(E_Frida)
    /\ last.job.id \in DOMAIN last.pre.sessions
    /\ script_id \in Range(last.pre.sessions[last.job.id].script_ids)

\* C27: when the toolkit's detach fails in detach(session_id) and the handle does
\* not report detached, at the return the session is registered with an empty
\* script_ids and none of the scripts it owned before the call is registered; a
\* script_post or unload_script on one of those script ids that comes next fails
\* with "Unknown script_id".
C27_CascadeKept ==
    /\ (AtReply("detach") /\ DetachFailedWith("is_detached:false")) =>
          /\ job.id \in DOMAIN sessions
          /\ sessions[job.id].script_ids = <<>>
          /\ ScriptsOf(job.id) = {}
          /\ \A script_id \in Range(pre.sessions[job.id].script_ids) :
                script_id \notin DOMAIN scripts
    /\ (pc = "reply" /\ job.op \in {"post", "unload"} /\ AfterFailedDetachOf(job.id)) =>
          /\ locals.result = Err(E_UnknownScript)
          /\ NoToolkitCall

\* A script_post on the script of a session whose detach has just failed, with the
\* session still registered.
C27_Witness ==
    /\ AtReply("post")
    /\ AfterFailedDetachOf(job.id)
    /\ last.job.id \in DOMAIN sessions
    /\ sessions[last.job.id].script_ids = <<>>
    /\ locals.result = Err(E_UnknownScript)

\* ------------------------------------------------- poller scheduling (C28)
Polling == pc \in {"poll", "poll_unload"}
\* Registered sessions whose handle reports detached, the one an attach in progress
\* has not yet returned left aside.
DetachedRegistered ==
    {id \in DOMAIN sessions : tk_sessions[sessions[id].session]
                               /\ ~(job.op = "attach" /\ id = locals.session_id)}

====
